---- MODULE Spec2Model ----
(***************************************************************************)
(* lsgroup: a one-directory listing script.  The model follows             *)
(* src/lsgroup.py: format_size, list_directories, categorize_files, the    *)
(* three display_* printers and the module-level pipeline.                 *)
(*                                                                         *)
(* Strings are sequences of one-character strings, so that splitext,      *)
(* lower, casefold, startswith and the ordering of str are computed on    *)
(* the characters.  Byte counts handed to format_size are little-endian   *)
(* sequences of base-1024 digits, because 1024^4 does not fit TLC's       *)
(* integers.                                                               *)
(***************************************************************************)
EXTENDS Integers, Sequences, FiniteSets, TLC

VARIABLES
    fs,               \* the directory's entries: what os.scandir can yield
    readable,         \* whether os.scandir(directory) succeeds right now
    pc,               \* position in the module-level pipeline
    steps,            \* the pipeline steps completed so far, in order
    hidden_dirs,      \* first result of list_directories
    visible_dirs,     \* second result of list_directories
    categories,       \* result of categorize_files
    stdout,           \* the lines printed so far
    first,            \* the scan results of the previous run (rerun only)
    size_in_bytes,    \* argument of a format_size call
    formatted         \* its return value

vars == << fs, readable, pc, steps, hidden_dirs, visible_dirs, categories,
           stdout, first, size_in_bytes, formatted >>

(***************************************************************************)
(* Bounds of the model.                                                    *)
(***************************************************************************)
MaxEntries == 3
MaxDigits == 6

(***************************************************************************)
(* Characters and strings.                                                 *)
(***************************************************************************)
\* ord(c) for the characters the model's strings are made of.
CharCode ==
    (" " :> 32) @@ ("(" :> 40) @@ (")" :> 41) @@ ("-" :> 45) @@ ("." :> 46) @@ ("/" :> 47)
    @@ ("0" :> 48) @@ ("1" :> 49) @@ ("2" :> 50) @@ ("3" :> 51) @@ ("4" :> 52) @@ ("5" :> 53)
    @@ ("6" :> 54) @@ ("7" :> 55) @@ ("8" :> 56) @@ ("9" :> 57) @@ ("A" :> 65) @@ ("B" :> 66)
    @@ ("C" :> 67) @@ ("D" :> 68) @@ ("E" :> 69) @@ ("F" :> 70) @@ ("G" :> 71) @@ ("H" :> 72)
    @@ ("I" :> 73) @@ ("J" :> 74) @@ ("K" :> 75) @@ ("L" :> 76) @@ ("M" :> 77) @@ ("N" :> 78)
    @@ ("O" :> 79) @@ ("P" :> 80) @@ ("Q" :> 81) @@ ("R" :> 82) @@ ("S" :> 83) @@ ("T" :> 84)
    @@ ("U" :> 85) @@ ("V" :> 86) @@ ("W" :> 87) @@ ("X" :> 88) @@ ("Y" :> 89) @@ ("Z" :> 90)
    @@ ("_" :> 95) @@ ("a" :> 97) @@ ("b" :> 98) @@ ("c" :> 99) @@ ("d" :> 100) @@ ("e" :> 101)
    @@ ("f" :> 102) @@ ("g" :> 103) @@ ("h" :> 104) @@ ("i" :> 105) @@ ("j" :> 106) @@ ("k" :> 107)
    @@ ("l" :> 108) @@ ("m" :> 109) @@ ("n" :> 110) @@ ("o" :> 111) @@ ("p" :> 112) @@ ("q" :> 113)
    @@ ("r" :> 114) @@ ("s" :> 115) @@ ("t" :> 116) @@ ("u" :> 117) @@ ("v" :> 118) @@ ("w" :> 119)
    @@ ("x" :> 120) @@ ("y" :> 121) @@ ("z" :> 122)

\* The lower-case form of the upper-case letters.
UpperToLower ==
    ("A" :> "a") @@ ("B" :> "b") @@ ("C" :> "c") @@ ("D" :> "d") @@ ("E" :> "e")
    @@ ("F" :> "f") @@ ("G" :> "g") @@ ("H" :> "h") @@ ("I" :> "i") @@ ("J" :> "j")
    @@ ("K" :> "k") @@ ("L" :> "l") @@ ("M" :> "m") @@ ("N" :> "n") @@ ("O" :> "o")
    @@ ("P" :> "p") @@ ("Q" :> "q") @@ ("R" :> "r") @@ ("S" :> "s") @@ ("T" :> "t")
    @@ ("U" :> "u") @@ ("V" :> "v") @@ ("W" :> "w") @@ ("X" :> "x") @@ ("Y" :> "y")
    @@ ("Z" :> "z")

\* str.lower() on the characters of s (line 57).
lower(s) ==
    [i \in 1..Len(s) |->
        IF s[i] \in DOMAIN UpperToLower THEN UpperToLower[s[i]] ELSE s[i]]

\* str.casefold() (lines 26, 88, 91, 133, 139); on ASCII it maps A-Z to a-z.
casefold(s) ==
    [i \in 1..Len(s) |->
        IF s[i] \in DOMAIN UpperToLower THEN UpperToLower[s[i]] ELSE s[i]]

\* a < b for str: lexicographic on the character codes.
RECURSIVE StrLess(_, _)
StrLess(a, b) ==
    IF b = <<>> THEN FALSE
    ELSE IF a = <<>> THEN TRUE
    ELSE IF a[1] = b[1] THEN StrLess(Tail(a), Tail(b))
    ELSE CharCode[a[1]] < CharCode[b[1]]

\* One insertion of a <<key, item>> pair behind every pair whose key is not
\* greater: equal keys keep their order of arrival, as in the stable sort of Python.
InsertByKey(done, p) ==
    LET k == Cardinality({i \in 1..Len(done) : ~StrLess(p[1], done[i][1])})
    IN  SubSeq(done, 1, k) \o <<p>> \o SubSeq(done, k + 1, Len(done))

RECURSIVE SortPairs(_)
SortPairs(ps) ==
    IF ps = <<>> THEN <<>>
    ELSE InsertByKey(SortPairs(SubSeq(ps, 1, Len(ps) - 1)), ps[Len(ps)])

\* sorted(s, key=...) and list.sort(key=...): a stable sort of s on the keys,
\* keys[i] being the key of s[i].
sorted(s, keys) ==
    LET ps == SortPairs([i \in 1..Len(s) |-> <<keys[i], s[i]>>])
    IN  [i \in 1..Len(s) |-> ps[i][2]]

\* key=str.casefold for a list of strings (lines 26, 133, 139).
CasefoldKeys(names) == [i \in 1..Len(names) |-> casefold(names[i])]

\* os.path.splitext (line 57): the extension starts at the last dot, unless
\* only dots precede it; the result is <<root, ext>>.
splitext(p) ==
    LET dots == {i \in 1..Len(p) : p[i] = "."}
    IN  IF dots = {} THEN <<p, <<>>>>
        ELSE LET d == CHOOSE i \in dots : \A j \in dots : j <= i
             IN  IF \E j \in 1..(d - 1) : p[j] # "."
                 THEN <<SubSeq(p, 1, d - 1), SubSeq(p, d, Len(p))>>
                 ELSE <<p, <<>>>>

\* str.startswith (lines 22, 74-78), on any sequence.
startswith(s, prefix) ==
    Len(prefix) <= Len(s) /\ SubSeq(s, 1, Len(prefix)) = prefix

(***************************************************************************)
(* format_size (lines 7-13).  The float size_in_bytes is the record        *)
(* [int, frac]: int holds the base-1024 digits of the integer part, least  *)
(* significant first, frac the base-1024 digits behind the point, most     *)
(* significant first.  Division of a double by 1024 is exact, so this is   *)
(* the value the code holds for every byte count below 2^53.               *)
(***************************************************************************)
Base == 1024

Units == <<"B", "K", "M", "G">>

\* The digits without high zeros (at least one digit stays).
RECURSIVE Normalize(_)
Normalize(d) ==
    IF Len(d) > 1 /\ d[Len(d)] = 0 THEN Normalize(SubSeq(d, 1, Len(d) - 1))
    ELSE d

\* The digits of a small natural number (a file size, a sum of sizes).
RECURSIVE ToDigits(_)
ToDigits(n) ==
    IF n < Base THEN <<n>> ELSE <<n % Base>> \o ToDigits(n \div Base)

\* Mutant of Below1024: <= for < in line 10.
Below1024_Inclusive(v) ==
    \/ \A i \in 2..Len(v.int) : v.int[i] = 0
    \/ /\ Normalize(v.int) = <<0, 1>>
       /\ \A i \in 1..Len(v.frac) : v.frac[i] = 0

\* size_in_bytes < 1024 (line 10).
Below1024(v) == \A i \in 2..Len(v.int) : v.int[i] = 0

\* size_in_bytes /= 1024 (line 12).
Div1024(v) ==
    [int  |-> IF Len(v.int) = 1 THEN <<0>> ELSE Tail(v.int),
     frac |-> <<Head(v.int)>> \o v.frac]

\* Ten times a fraction: <<the integer part, the digits of the new fraction>>.
RECURSIVE TimesTen(_)
TimesTen(f) ==
    IF f = <<>> THEN <<0, <<>>>>
    ELSE LET rest == TimesTen(Tail(f))
             x    == f[1] * 10 + rest[1]
         IN  <<x \div Base, <<x % Base>> \o rest[2]>>

RECURSIVE Increment(_)
Increment(d) ==
    IF d = <<>> THEN <<1>>
    ELSE IF d[1] + 1 < Base THEN <<d[1] + 1>> \o Tail(d)
    ELSE <<0>> \o Increment(Tail(d))

\* f"{size_in_bytes:.1f}" (lines 11, 13): the nearest multiple of 0.1, a tie
\* going to the even last digit.
OneDecimal(v) ==
    LET tt    == TimesTen(v.frac)
        t     == tt[1]
        r     == tt[2]
        tie   == r # <<>> /\ r[1] = Base \div 2 /\ \A i \in 2..Len(r) : r[i] = 0
        above == r # <<>> /\ (\/ r[1] > Base \div 2
                              \/ r[1] = Base \div 2 /\ \E i \in 2..Len(r) : r[i] # 0)
        up    == above \/ (tie /\ t % 2 = 1)
        whole == Normalize(v.int)
    IN  IF ~up THEN [whole |-> whole, tenth |-> t]
        ELSE IF t + 1 < 10 THEN [whole |-> whole, tenth |-> t + 1]
        ELSE [whole |-> Increment(whole), tenth |-> 0]

Render(v, unit) ==
    LET n == OneDecimal(v)
    IN  [whole |-> n.whole, tenth |-> n.tenth, unit |-> unit]

\* The for loop of format_size from its i-th unit on, and the final return.
RECURSIVE FormatFrom(_, _)
FormatFrom(v, i) ==
    IF i > Len(Units) THEN Render(v, "T")
    ELSE IF Below1024(v) THEN Render(v, Units[i])
    ELSE FormatFrom(Div1024(v), i + 1)

format_size(digits) == FormatFrom([int |-> digits, frac |-> <<>>], 1)

(***************************************************************************)
(* The directory.  An entry is what os.scandir yields: its name, whether   *)
(* is_dir() or is_file() holds of it ("other": neither, a socket or a      *)
(* dangling link), st_size, and whether os.access(path, os.X_OK) holds.    *)
(***************************************************************************)
File(name, size, xbit) == [name |-> name, kind |-> "file", size |-> size, xbit |-> xbit]

Dir(name) == [name |-> name, kind |-> "dir", size |-> 0, xbit |-> TRUE]

Special(name) == [name |-> name, kind |-> "other", size |-> 0, xbit |-> FALSE]

\* The entries the modelled directories are made of.
Pool ==
    { File(<<"a", ".", "J", "P", "G">>, 10000, FALSE),
      File(<<"x", ".", "t", "s">>, 700, TRUE),
      File(<<"a", ".", "m", "d">>, 500, TRUE),
      File(<<"B", ".", "M", "D">>, 300, TRUE),
      File(<<"r", ".", "s", "h">>, 200, FALSE),
      File(<<"m", ".", "c">>, 40, FALSE),
      File(<<"M", ".", "c">>, 2048, TRUE),
      File(<<"t", ".", "t", "a", "r", ".", "g", "z">>, 5000, FALSE),
      File(<<"z", ".", "g", "z">>, 60, FALSE),
      File(<<"w">>, 0, FALSE),
      File(<<"W">>, 8, FALSE),
      File(<<"W">>, 8, TRUE),
      File(<<"e", ".", "e", "l", "f">>, 900, FALSE),
      File(<<"v", ".", "w", "e", "b", "m">>, 3000000, FALSE),
      File(<<"s", ".", "c", "s", "s">>, 1, FALSE),
      File(<<"u", ".", "a", "u">>, 1023, FALSE),
      Dir(<<".", "g", "i", "t">>),
      Dir(<<".", "G", "i", "t">>),
      Dir(<<"S", "r", "c">>),
      Dir(<<"d", ".", "j", "p", "g">>),
      Special(<<"l", "n", "k">>) }

\* The directories of at most k entries; a directory holds no two entries of
\* one name.
RECURSIVE DirectoriesUpTo(_)
DirectoriesUpTo(k) ==
    IF k = 0 THEN {{}}
    ELSE LET smaller == DirectoriesUpTo(k - 1)
         IN  smaller \cup
             UNION { { d \cup {e} : e \in {x \in Pool : \A y \in d : y.name # x.name} } :
                     d \in smaller }

Directories == DirectoriesUpTo(MaxEntries)

\* The orders in which os.scandir may yield the entries of d.
ScanOrders(d) ==
    { s \in [1..Cardinality(d) -> d] :
        \A i, j \in 1..Cardinality(d) : i # j => s[i] # s[j] }

(***************************************************************************)
(* mimetypes.guess_type (line 72), by what the standard library does with  *)
(* a path: the suffix map, one encoding suffix stripped, then the type     *)
(* table looked up with the extension as written and then lower-cased.     *)
(* A type is the sequence <<major, "/", minor>>; None is <<>>.            *)
(***************************************************************************)
None == <<>>

suffix_map ==
    (<<".", "t", "g", "z">> :> <<".", "t", "a", "r", ".", "g", "z">>)
    @@ (<<".", "t", "a", "z">> :> <<".", "t", "a", "r", ".", "g", "z">>)

encodings_map ==
    { <<".", "g", "z">>, <<".", "Z">>, <<".", "b", "z", "2">>, <<".", "x", "z">> }

\* The entries of the type table that the names of Pool can hit; ".elf" is an
\* entry of a system mime.types file.
types_map ==
    (<<".", "t", "a", "r">> :> <<"application", "/", "x-tar">>)
    @@ (<<".", "e", "l", "f">> :> <<"application", "/", "x-executable">>)
    @@ (<<".", "w", "e", "b", "m">> :> <<"video", "/", "webm">>)
    @@ (<<".", "c", "s", "s">> :> <<"text", "/", "css">>)
    @@ (<<".", "a", "u">> :> <<"audio", "/", "basic">>)
    @@ (<<".", "c">> :> <<"text", "/", "plain">>)
    @@ (<<".", "s", "h">> :> <<"application", "/", "x-sh">>)
    @@ (<<".", "j", "p", "g">> :> <<"image", "/", "jpeg">>)

guess_type(path) ==
    LET s0  == splitext(path)
        s1  == IF s0[2] \in DOMAIN suffix_map
               THEN splitext(s0[1] \o suffix_map[s0[2]]) ELSE s0
        s2  == IF s1[2] \in encodings_map THEN splitext(s1[1]) ELSE s1
        ext == s2[2]
    IN  IF ext \in DOMAIN types_map THEN types_map[ext]
        ELSE IF lower(ext) \in DOMAIN types_map THEN types_map[lower(ext)]
        ELSE None

(***************************************************************************)
(* list_directories (lines 15-26), for the order os.scandir yields.        *)
(***************************************************************************)
is_dir(entry) == entry.kind = "dir"

is_file(entry) == entry.kind = "file"

IsHiddenDir(entry) == is_dir(entry) /\ startswith(entry.name, <<".">>)

IsVisibleDir(entry) == is_dir(entry) /\ ~startswith(entry.name, <<".">>)

\* hidden_dirs before it is sorted: the appends of line 23, in scan order.
HiddenNames(order) ==
    LET kept == SelectSeq(order, IsHiddenDir)
    IN  [i \in 1..Len(kept) |-> kept[i].name]

\* visible_dirs before it is sorted: the appends of line 25, in scan order.
VisibleNames(order) ==
    LET kept == SelectSeq(order, IsVisibleDir)
    IN  [i \in 1..Len(kept) |-> kept[i].name]

\* Mutant of list_directories: key=str.casefold left out of both sorts.
list_directories_NoKey(order) ==
    << sorted(HiddenNames(order), HiddenNames(order)),
       sorted(VisibleNames(order), VisibleNames(order)) >>

list_directories(order) ==
    << sorted(HiddenNames(order), CasefoldKeys(HiddenNames(order))),
       sorted(VisibleNames(order), CasefoldKeys(VisibleNames(order))) >>

(***************************************************************************)
(* categorize_files (lines 28-93).                                         *)
(***************************************************************************)
\* The keys of the categories dict, in insertion order (lines 30-36).
CategoryOrder == <<"Image/Video", "Document", "Executable", "Programming", "Other">>

CategoryNames == {CategoryOrder[i] : i \in 1..Len(CategoryOrder)}

\* Each keyed category is an empty defaultdict(list), Other an empty list.
EmptyCategories == [c \in CategoryNames |-> <<>>]

NoExtension == <<"(", "n", "o", " ", "e", "x", "t", "e", "n", "s", "i", "o", "n", ")">>

image_video_extensions ==
    { <<".", "j", "p", "g">>, <<".", "j", "p", "e", "g">>, <<".", "p", "n", "g">>,
      <<".", "g", "i", "f">>, <<".", "b", "m", "p">>, <<".", "m", "p", "4">>,
      <<".", "m", "k", "v">>, <<".", "a", "v", "i">>, <<".", "m", "o", "v">>,
      <<".", "h", "e", "i", "c">>, <<".", "w", "e", "b", "p">>, <<".", "m", "p", "g">>,
      <<".", "t", "i", "f", "f">>, <<".", "t", "i", "f">>, <<".", "s", "v", "g">>,
      <<".", "i", "c", "o">>, <<".", "r", "a", "w">>, <<".", "m", "p", "3">>,
      <<".", "w", "a", "v">>, <<".", "f", "l", "a", "c">>, <<".", "o", "g", "g">>,
      <<".", "a", "a", "c">>, <<".", "m", "4", "a">>, <<".", "w", "m", "v">>,
      <<".", "f", "l", "v">>, <<".", "3", "g", "p">>, <<".", "m", "4", "v">>,
      <<".", "v", "o", "b">>, <<".", "r", "m">>, <<".", "t", "s">> }

document_extensions ==
    { <<".", "p", "d", "f">>, <<".", "d", "o", "c", "x">>, <<".", "d", "o", "c">>,
      <<".", "x", "l", "s", "x">>, <<".", "x", "l", "s">>, <<".", "p", "p", "t", "x">>,
      <<".", "t", "x", "t">>, <<".", "e", "p", "u", "b">>, <<".", "c", "s", "v">>,
      <<".", "p", "c", "a", "p">>, <<".", "p", "c", "a", "p", "n", "g">>,
      <<".", "r", "t", "f">>, <<".", "o", "d", "t">>, <<".", "o", "d", "s">>,
      <<".", "o", "d", "p">>, <<".", "l", "o", "g">>, <<".", "m", "d">>,
      <<".", "i", "n", "i">>, <<".", "y", "a", "m", "l">>, <<".", "y", "m", "l">>,
      <<".", "t", "e", "x">>, <<".", "d", "b">> }

executable_extensions ==
    { <<".", "e", "x", "e">>, <<".", "b", "a", "t">>, <<".", "s", "h">>, <<".", "p", "y">>,
      <<".", "p", "l">>, <<".", "j", "a", "r">>, <<".", "b", "i", "n">>,
      <<".", "c", "m", "d">>, <<".", "p", "h", "p">>, <<".", "m", "s", "i">>,
      <<".", "d", "e", "b">>, <<".", "r", "p", "m">>, <<".", "a", "p", "k">>,
      <<".", "d", "m", "g">>, <<".", "a", "p", "p">>, <<".", "r", "u", "n">>,
      <<".", "v", "b", "s">>, <<".", "p", "s", "1">> }

programming_extensions ==
    { <<".", "h", "t", "m", "l">>, <<".", "j", "s", "o", "n">>,
      <<".", "p", "i", "c", "k", "l", "e">>, <<".", "s", "q", "l">>, <<".", "x", "m", "l">>,
      <<".", "c", "p", "p">>, <<".", "c">>, <<".", "h">>, <<".", "h", "p", "p">>,
      <<".", "j", "a", "v", "a">>, <<".", "j", "s">>, <<".", "j", "s", "x">>,
      <<".", "t", "s">>, <<".", "t", "s", "x">>, <<".", "r", "b">>, <<".", "g", "o">>,
      <<".", "s", "w", "i", "f", "t">>, <<".", "r", "s">>, <<".", "k", "t">>,
      <<".", "c", "s">>, <<".", "j", "s", "p">> }

\* Mutant of Extension: the .lower() of line 57 left out.
Extension_NotLowered(file) ==
    LET e == splitext(file)[2]
    IN  IF e # <<>> THEN e ELSE NoExtension

\* ext of line 57.
Extension(file) ==
    LET e == lower(splitext(file)[2])
    IN  IF e # <<>> THEN e ELSE NoExtension

\* Mutant of MimeCategory: the most specific prefix tested first, so that the
\* branch of line 78 is taken.
MimeCategory_SpecificFirst(mime_type) ==
    IF mime_type # None
    THEN IF startswith(mime_type, <<"application", "/", "x-executable">>)
         THEN "Executable"
         ELSE IF startswith(mime_type, <<"image">>) \/ startswith(mime_type, <<"video">>)
         THEN "Image/Video"
         ELSE IF \/ startswith(mime_type, <<"application">>)
                 \/ startswith(mime_type, <<"text">>)
         THEN "Document"
         ELSE "Other"
    ELSE "Other"

\* The MIME fallback of lines 72-83: the category for a guessed type.
MimeCategory(mime_type) ==
    IF mime_type # None
    THEN IF startswith(mime_type, <<"image">>) \/ startswith(mime_type, <<"video">>)
         THEN "Image/Video"
         ELSE IF \/ startswith(mime_type, <<"application">>)
                 \/ startswith(mime_type, <<"text">>)
         THEN "Document"
         ELSE IF startswith(mime_type, <<"application", "/", "x-executable">>)
         THEN "Executable"
         ELSE "Other"
    ELSE "Other"

\* Mutant of Classify: the Programming test of line 68 moved before the
\* Executable test of line 66.
Classify_ProgrammingFirst(entry) ==
    LET ext == Extension(entry.name)
    IN  IF ext \in image_video_extensions THEN "Image/Video"
        ELSE IF ext \in document_extensions THEN "Document"
        ELSE IF ext \in programming_extensions THEN "Programming"
        ELSE IF ext \in executable_extensions \/ entry.xbit THEN "Executable"
        ELSE MimeCategory(guess_type(entry.name))

\* The if/elif chain of lines 62-83: the category of one regular file.
Classify(entry) ==
    LET ext == Extension(entry.name)
    IN  IF ext \in image_video_extensions THEN "Image/Video"
        ELSE IF ext \in document_extensions THEN "Document"
        ELSE IF ext \in executable_extensions \/ entry.xbit THEN "Executable"
        ELSE IF ext \in programming_extensions THEN "Programming"
        ELSE MimeCategory(guess_type(entry.name))

\* categories[c][ext].append(file_info) on a defaultdict(list).
AppendTo(group, ext, file_info) ==
    IF ext \in DOMAIN group
    THEN [group EXCEPT ![ext] = Append(@, file_info)]
    ELSE group @@ (ext :> <<file_info>>)

\* The body of the loop over the entries (lines 54-83).
AddEntry(cats, entry) ==
    IF ~is_file(entry) THEN cats
    ELSE LET file_info == <<entry.name, entry.size>>
             c         == Classify(entry)
         IN  IF c = "Other"
             THEN [cats EXCEPT !["Other"] = Append(@, file_info)]
             ELSE [cats EXCEPT ![c] = AppendTo(@, Extension(entry.name), file_info)]

RECURSIVE ScanFiles(_, _)
ScanFiles(order, cats) ==
    IF order = <<>> THEN cats
    ELSE ScanFiles(Tail(order), AddEntry(cats, order[1]))

\* key=lambda x: x[0].casefold() for a list of file_info (lines 88, 91).
NameKeys(files) == [i \in 1..Len(files) |-> casefold(files[i][1])]

\* Mutant of SortFiles: the names compared as they are, without casefold().
SortFiles_NoCasefold(files) ==
    sorted(files, [i \in 1..Len(files) |-> files[i][1]])

\* Mutant of SortFiles: the list left in the order of the scan.
SortFiles_Unsorted(files) == files

\* group.sort(...) and group[ext].sort(...) (lines 88, 91).
SortFiles(files) == sorted(files, NameKeys(files))

\* The sorting of lines 86-91.
SortBuckets(cats) ==
    [c \in DOMAIN cats |->
        IF c = "Other" THEN SortFiles(cats[c])
        ELSE [ext \in DOMAIN cats[c] |-> SortFiles(cats[c][ext])]]

categorize_files(order) == SortBuckets(ScanFiles(order, EmptyCategories))

(***************************************************************************)
(* The printers (lines 95-143).  A printed line is a tuple of its parts.   *)
(***************************************************************************)
RECURSIVE Flatten(_)
Flatten(ss) == IF ss = <<>> THEN <<>> ELSE ss[1] \o Flatten(Tail(ss))

RECURSIVE SumSizes(_)
SumSizes(files) ==
    IF files = <<>> THEN 0 ELSE files[1][2] + SumSizes(Tail(files))

\* The keys of a dict as a sequence.  The dict's insertion order is not kept:
\* the keys are lower-cased already, so no two have one casefold key and the
\* sort of lines 133 and 139 gives one result for every order.
RECURSIVE Keys(_)
Keys(S) ==
    IF S = {} THEN <<>>
    ELSE LET k == CHOOSE x \in S : TRUE IN <<k>> \o Keys(S \ {k})

display_directories(hidden, visible) ==
    << <<"header", "Directories:">>, <<"rule">> >>
    \o (IF hidden # <<>>
        THEN << <<"header", "Hidden Directories:">> >>
             \o [i \in 1..Len(hidden) |-> <<"dir", "cyan", hidden[i]>>]
        ELSE <<>>)
    \o (IF visible # <<>>
        THEN << <<"header", "Visible Directories:">> >>
             \o [i \in 1..Len(visible) |-> <<"dir", "yellow", visible[i]>>]
        ELSE <<>>)

FileLines(files, colour) ==
    [i \in 1..Len(files) |-> <<"file", format_size(ToDigits(files[i][2])), colour, files[i][1]>>]

\* sorted(group, key=str.casefold) (lines 133, 139).
SortedExtensions(group) ==
    sorted(Keys(DOMAIN group), CasefoldKeys(Keys(DOMAIN group)))

\* The lines of one category (lines 123-143).
CategoryLines(c, group) ==
    IF c = "Other" /\ group = <<>> THEN <<>>
    ELSE IF c # "Other" /\ \A ext \in DOMAIN group : group[ext] = <<>> THEN <<>>
    ELSE << <<"category", c>> >>
         \o (IF c = "Other" THEN FileLines(group, "blue")
             ELSE LET exts == SortedExtensions(group)
                      col  == IF c = "Image/Video" THEN "magenta" ELSE "green"
                  IN  Flatten([i \in 1..Len(exts) |->
                          IF group[exts[i]] # <<>>
                          THEN << <<"extension", exts[i]>> >>
                               \o FileLines(group[exts[i]], col)
                          ELSE <<>>]))

display_files(cats) ==
    << <<"rule">> >>
    \o Flatten([i \in 1..Len(CategoryOrder) |->
                   CategoryLines(CategoryOrder[i], cats[CategoryOrder[i]])])

RECURSIVE SumLengths(_)
SumLengths(lists) ==
    IF lists = <<>> THEN 0 ELSE Len(lists[1]) + SumLengths(Tail(lists))

\* Mutant of SummaryCount: len(group), the number of buckets, for the count.
SummaryCount_Buckets(c, group) ==
    IF c # "Other" THEN Cardinality(DOMAIN group) ELSE Len(group)

\* count of line 114.
SummaryCount(c, group) ==
    IF c # "Other"
    THEN LET ks == Keys(DOMAIN group)
         IN  SumLengths([i \in 1..Len(ks) |-> group[ks[i]]])
    ELSE Len(group)

\* total_size of line 115.
SummaryTotal(c, group) ==
    IF c # "Other"
    THEN LET ks == Keys(DOMAIN group)
         IN  SumSizes(Flatten([i \in 1..Len(ks) |-> group[ks[i]]]))
    ELSE SumSizes(group)

SummaryRow(c, group) ==
    IF SummaryCount(c, group) > 0
    THEN << <<"row", c, SummaryCount(c, group),
              format_size(ToDigits(SummaryTotal(c, group)))>> >>
    ELSE <<>>

display_summary(cats) ==
    << <<"header", "Summary:">>, <<"columns">>, <<"rule">> >>
    \o Flatten([i \in 1..Len(CategoryOrder) |->
                   SummaryRow(CategoryOrder[i], cats[CategoryOrder[i]])])

(***************************************************************************)
(* The run of the script (lines 145-159): a linear pipeline.  An exception *)
(* of os.scandir is caught nowhere, so it ends the run ("fatal").  The     *)
(* state after Init is the one after line 152 has printed its line.        *)
(***************************************************************************)
Started ==
    /\ pc = "list_directories"
    /\ steps = <<>>
    /\ hidden_dirs = None
    /\ visible_dirs = None
    /\ categories = None
    /\ stdout = << <<"header", "Scanning Directory:">> >>

Init ==
    /\ fs \in Directories
    /\ readable \in BOOLEAN
    /\ Started
    /\ first = None
    /\ size_in_bytes = None
    /\ formatted = None

\* Line 154, os.scandir succeeding.
ListDirectories ==
    /\ pc = "list_directories"
    /\ readable
    /\ \E order \in ScanOrders(fs) :
          LET dirs == list_directories(order)
          IN  hidden_dirs' = dirs[1] /\ visible_dirs' = dirs[2]
    /\ pc' = "display_directories"
    /\ steps' = Append(steps, "list_directories")
    /\ UNCHANGED <<fs, readable, categories, stdout, first, size_in_bytes, formatted>>

\* Line 154, os.scandir raising (line 19): nothing catches it.
ListDirectoriesFails ==
    /\ pc = "list_directories"
    /\ ~readable
    /\ pc' = "fatal"
    /\ UNCHANGED <<fs, readable, steps, hidden_dirs, visible_dirs, categories,
                   stdout, first, size_in_bytes, formatted>>

\* Line 155.
DisplayDirectories ==
    /\ pc = "display_directories"
    /\ stdout' = stdout \o display_directories(hidden_dirs, visible_dirs)
    /\ pc' = "categorize_files"
    /\ steps' = Append(steps, "display_directories")
    /\ UNCHANGED <<fs, readable, hidden_dirs, visible_dirs, categories, first,
                   size_in_bytes, formatted>>

\* Line 157, os.scandir succeeding.
CategorizeFiles ==
    /\ pc = "categorize_files"
    /\ readable
    /\ \E order \in ScanOrders(fs) : categories' = categorize_files(order)
    /\ pc' = "display_files"
    /\ steps' = Append(steps, "categorize_files")
    /\ UNCHANGED <<fs, readable, hidden_dirs, visible_dirs, stdout, first,
                   size_in_bytes, formatted>>

\* Mutant of CategorizeFilesFails: the exception caught, the run going on
\* with empty categories.
CategorizeFilesFails_Caught ==
    /\ pc = "categorize_files"
    /\ ~readable
    /\ categories' = EmptyCategories
    /\ pc' = "display_files"
    /\ UNCHANGED <<fs, readable, steps, hidden_dirs, visible_dirs, stdout, first,
                   size_in_bytes, formatted>>

\* Line 157, os.scandir raising (line 52).
CategorizeFilesFails ==
    /\ pc = "categorize_files"
    /\ ~readable
    /\ pc' = "fatal"
    /\ UNCHANGED <<fs, readable, steps, hidden_dirs, visible_dirs, categories,
                   stdout, first, size_in_bytes, formatted>>

\* Line 158.
DisplayFiles ==
    /\ pc = "display_files"
    /\ stdout' = stdout \o display_files(categories)
    /\ pc' = "display_summary"
    /\ steps' = Append(steps, "display_files")
    /\ UNCHANGED <<fs, readable, hidden_dirs, visible_dirs, categories, first,
                   size_in_bytes, formatted>>

\* Line 159, and the end of the script.
DisplaySummary ==
    /\ pc = "display_summary"
    /\ stdout' = stdout \o display_summary(categories)
    /\ pc' = "done"
    /\ steps' = Append(steps, "display_summary")
    /\ UNCHANGED <<fs, readable, hidden_dirs, visible_dirs, categories, first,
                   size_in_bytes, formatted>>

\* The environment: between the two scans the directory is removed or its
\* permissions are withdrawn, so that the second os.scandir raises.
DirectoryLost ==
    /\ pc \in {"display_directories", "categorize_files"}
    /\ readable
    /\ readable' = FALSE
    /\ UNCHANGED <<fs, pc, steps, hidden_dirs, visible_dirs, categories, stdout,
                   first, size_in_bytes, formatted>>

Next ==
    \/ ListDirectories
    \/ ListDirectoriesFails
    \/ DisplayDirectories
    \/ CategorizeFiles
    \/ CategorizeFilesFails
    \/ DisplayFiles
    \/ DisplaySummary
    \/ DirectoryLost

Spec == Init /\ [][Next]_vars

(***************************************************************************)
(* The script run a second time on the unchanged directory: the results of *)
(* the first run's two scans are kept in `first`.                          *)
(***************************************************************************)
ScanResults == <<hidden_dirs, visible_dirs, categories>>

RunAgain ==
    /\ pc = "done"
    /\ first = None
    /\ first' = ScanResults
    /\ pc' = "list_directories"
    /\ steps' = <<>>
    /\ hidden_dirs' = None
    /\ visible_dirs' = None
    /\ categories' = None
    /\ stdout' = << <<"header", "Scanning Directory:">> >>
    /\ UNCHANGED <<fs, readable, size_in_bytes, formatted>>

NextRerun == Next \/ RunAgain

SpecRerun == Init /\ [][NextRerun]_vars

(***************************************************************************)
(* format_size called on a byte count.  A count has at most MaxDigits      *)
(* base-1024 digits and lies below 2^53 = 8 * 1024^5, the range in which   *)
(* the double the code divides is the exact quotient.                      *)
(***************************************************************************)
DigitPool == {0, 1, 256, 768, 1023}

ByteCounts ==
    { d \in UNION {[1..n -> DigitPool] : n \in 1..MaxDigits} :
        /\ Len(d) > 1 => d[Len(d)] # 0
        /\ Len(d) <= 6
        /\ Len(d) = 6 => d[6] < 8 }

InitSize ==
    /\ size_in_bytes \in ByteCounts
    /\ formatted = None
    /\ pc = "format_size"
    /\ fs = {}
    /\ readable = TRUE
    /\ steps = <<>>
    /\ hidden_dirs = None
    /\ visible_dirs = None
    /\ categories = None
    /\ stdout = <<>>
    /\ first = None

FormatSize ==
    /\ pc = "format_size"
    /\ formatted' = format_size(size_in_bytes)
    /\ pc' = "returned"
    /\ UNCHANGED <<fs, readable, steps, hidden_dirs, visible_dirs, categories,
                   stdout, first, size_in_bytes>>

NextSize == FormatSize

SpecSize == InitSize /\ [][NextSize]_vars

(***************************************************************************)
(* What the properties below are stated with.                              *)
(***************************************************************************)
RegularFiles == {e \in fs : e.kind = "file"}

\* categorize_files has returned in this run.
Categorized == pc \in {"display_files", "display_summary", "done"}

\* The lower-cased extension of a name, or the "(no extension)" marker.
LoweredExtension(name) ==
    LET e == splitext(name)[2]
    IN  IF e = <<>> THEN NoExtension ELSE lower(e)

KeyedCategories == CategoryNames \ {"Other"}

\* Where file_info sits in a result: <<category, extension key, index>>, the
\* key being None in Other.
PlacesIn(cats, file_info) ==
    { <<"Other", None, i>> :
         i \in {j \in 1..Len(cats["Other"]) : cats["Other"][j] = file_info} }
    \cup UNION { UNION { { <<c, k, i>> :
                             i \in {j \in 1..Len(cats[c][k]) : cats[c][k][j] = file_info} } :
                         k \in DOMAIN cats[c] } :
                 c \in KeyedCategories }

\* Every file_info a result holds.
HeldIn(cats) ==
    {cats["Other"][i] : i \in 1..Len(cats["Other"])}
    \cup UNION { UNION { {cats[c][k][i] : i \in 1..Len(cats[c][k])} :
                         k \in DOMAIN cats[c] } :
                 c \in KeyedCategories }

\* The categories that hold the entry e.
CategoriesHolding(e) == {p[1] : p \in PlacesIn(categories, <<e.name, e.size>>)}

InFs(name) == \E e \in fs : e.name = name

(***************************************************************************)
(* C1: after categorize_files returns, each regular file of the directory  *)
(* is at exactly one place of the result, a place of the bucket keyed by   *)
(* its lower-cased extension (or "(no extension)") unless it is in Other,  *)
(* and what is not a regular file is at no place.                          *)
(***************************************************************************)
C1_EachFileExactlyOnce ==
    Categorized =>
        /\ DOMAIN categories = CategoryNames
        /\ \A e \in RegularFiles :
              LET ps == PlacesIn(categories, <<e.name, e.size>>)
              IN  /\ Cardinality(ps) = 1
                  /\ \A q \in ps : q[1] # "Other" => q[2] = LoweredExtension(e.name)
        /\ \A info \in HeldIn(categories) :
              \E e \in RegularFiles : info = <<e.name, e.size>>

\* A scan of a directory with an upper-case extension, a directory named like
\* an image, and an entry that is neither file nor directory.
C1_Witness ==
    /\ Categorized
    /\ InFs(<<"a", ".", "J", "P", "G">>)
    /\ InFs(<<"d", ".", "j", "p", "g">>)
    /\ InFs(<<"l", "n", "k">>)
    /\ <<".", "j", "p", "g">> \in DOMAIN categories["Image/Video"]

(***************************************************************************)
(* C2: the category of a regular file follows the precedence Image/Video   *)
(* set, Document set, Executable set or execute bit, Programming set, MIME *)
(* fallback, the first match winning; so ".ts" is Image/Video, and the     *)
(* execute bit overrides Programming but neither Image/Video nor Document. *)
(***************************************************************************)
ByPrecedence(e) ==
    LET ext == LoweredExtension(e.name)
    IN  IF ext \in image_video_extensions THEN "Image/Video"
        ELSE IF ext \in document_extensions THEN "Document"
        ELSE IF ext \in executable_extensions \/ e.xbit THEN "Executable"
        ELSE IF ext \in programming_extensions THEN "Programming"
        ELSE MimeCategory(guess_type(e.name))

C2_Precedence ==
    Categorized =>
        \A e \in RegularFiles :
            LET ext == LoweredExtension(e.name)
            IN  /\ CategoriesHolding(e) = {ByPrecedence(e)}
                /\ ext = <<".", "t", "s">> => CategoriesHolding(e) = {"Image/Video"}
                /\ e.xbit /\ ext \in image_video_extensions
                      => CategoriesHolding(e) = {"Image/Video"}
                /\ e.xbit /\ ext \in document_extensions \ image_video_extensions
                      => CategoriesHolding(e) = {"Document"}
                /\ e.xbit /\ ext \in programming_extensions
                             \ (image_video_extensions \cup document_extensions)
                      => CategoriesHolding(e) = {"Executable"}

\* A scan of x.ts, a.md and M.c, each with the execute bit.
C2_Witness ==
    /\ Categorized
    /\ File(<<"x", ".", "t", "s">>, 700, TRUE) \in fs
    /\ File(<<"a", ".", "m", "d">>, 500, TRUE) \in fs
    /\ File(<<"M", ".", "c">>, 2048, TRUE) \in fs
    /\ <<".", "c">> \in DOMAIN categories["Executable"]

(***************************************************************************)
(* C3 as stated: two regular files with the same lower-cased extension and *)
(* the same execute bit are in the same category.                          *)
(***************************************************************************)
C3_SameExtensionAndBit ==
    Categorized =>
        \A e1, e2 \in RegularFiles :
            (/\ LoweredExtension(e1.name) = LoweredExtension(e2.name)
             /\ e1.xbit = e2.xbit)
            => CategoriesHolding(e1) = CategoriesHolding(e2)

(***************************************************************************)
(* C3 amended: two regular files with the same lower-cased extension, the  *)
(* same execute bit and the same guessed MIME type are in the same         *)
(* category, whatever the rest of their names.                             *)
(***************************************************************************)
C3_SameExtensionBitAndType ==
    Categorized =>
        \A e1, e2 \in RegularFiles :
            (/\ LoweredExtension(e1.name) = LoweredExtension(e2.name)
             /\ e1.xbit = e2.xbit
             /\ guess_type(e1.name) = guess_type(e2.name))
            => CategoriesHolding(e1) = CategoriesHolding(e2)

\* A scan of two files that agree in extension, bit and type, not in name.
C3_Witness ==
    /\ Categorized
    /\ InFs(<<"a", ".", "m", "d">>)
    /\ InFs(<<"B", ".", "M", "D">>)
    /\ CategoriesHolding(File(<<"B", ".", "M", "D">>, 300, TRUE)) = {"Document"}

(***************************************************************************)
(* C10: a regular file with an extension of none of the four sets and no   *)
(* execute bit is placed by its guessed MIME type alone: image or video    *)
(* gives Image/Video, application or text gives Document (under the file's *)
(* own extension key), anything else or no type gives Other; the fallback  *)
(* never gives Executable, not even for application/x-executable.          *)
(***************************************************************************)
InFallback(e) ==
    /\ LoweredExtension(e.name) \notin
          (image_video_extensions \cup document_extensions
           \cup executable_extensions \cup programming_extensions)
    /\ ~e.xbit

ByMimeType(m) ==
    IF m # None /\ (startswith(m, <<"image">>) \/ startswith(m, <<"video">>))
    THEN "Image/Video"
    ELSE IF m # None /\ (startswith(m, <<"application">>) \/ startswith(m, <<"text">>))
    THEN "Document"
    ELSE "Other"

C10_MimeFallback ==
    Categorized =>
        \A e \in RegularFiles :
            InFallback(e) =>
                LET want == ByMimeType(guess_type(e.name))
                    ps   == PlacesIn(categories, <<e.name, e.size>>)
                IN  /\ Cardinality(ps) = 1
                    /\ \A q \in ps :
                          /\ q[1] = want
                          /\ q[1] # "Executable"
                          /\ q[1] # "Other" => q[2] = LoweredExtension(e.name)

\* A scan in which a file of type application/x-executable went to Document.
C10_Witness ==
    /\ Categorized
    /\ guess_type(<<"e", ".", "e", "l", "f">>) = <<"application", "/", "x-executable">>
    /\ <<".", "e", "l", "f">> \in DOMAIN categories["Document"]
    /\ categories["Executable"] = <<>>

(***************************************************************************)
(* C4: list_directories returns every directory of the scanned directory   *)
(* exactly once, in the hidden list iff its name starts with ".", else in  *)
(* the visible list; nothing that is not a directory is in either list;    *)
(* each list is in non-decreasing order of the case-folded names.          *)
(***************************************************************************)
Occurrences(list, x) == Cardinality({i \in 1..Len(list) : list[i] = x})

NamesAscending(names) ==
    \A i, j \in 1..Len(names) :
        i < j => ~StrLess(casefold(names[j]), casefold(names[i]))

\* list_directories has returned in this run.
Listed == Len(steps) >= 1

C4_DirectoriesPartitioned ==
    Listed =>
        /\ \A e \in fs :
              e.kind = "dir" =>
                  /\ Occurrences(hidden_dirs, e.name) = (IF e.name[1] = "." THEN 1 ELSE 0)
                  /\ Occurrences(visible_dirs, e.name) = (IF e.name[1] = "." THEN 0 ELSE 1)
        /\ \A e \in fs :
              e.kind # "dir" =>
                  Occurrences(hidden_dirs, e.name) + Occurrences(visible_dirs, e.name) = 0
        /\ \A i \in 1..Len(hidden_dirs) : InFs(hidden_dirs[i])
        /\ \A i \in 1..Len(visible_dirs) : InFs(visible_dirs[i])
        /\ NamesAscending(hidden_dirs)
        /\ NamesAscending(visible_dirs)

\* A listing with a hidden directory, two visible ones whose order depends on
\* the case folding, and (the third is d.jpg) a directory named like an image.
C4_Witness ==
    /\ Listed
    /\ hidden_dirs = << <<".", "g", "i", "t">> >>
    /\ visible_dirs = << <<"d", ".", "j", "p", "g">>, <<"S", "r", "c">> >>

(***************************************************************************)
(* C9: after categorize_files every bucket's list and the Other list are   *)
(* in non-decreasing order of the case-folded filename; display_files goes *)
(* through the categories in the fixed order, skips one without files, and *)
(* prints the extension headers of a keyed category in the case-folded     *)
(* order of the keys.                                                      *)
(***************************************************************************)
FilesAscending(files) == NamesAscending([i \in 1..Len(files) |-> files[i][1]])

PositionOf(c) == CHOOSE i \in 1..Len(CategoryOrder) : CategoryOrder[i] = c

HoldsFiles(cats, c) ==
    IF c = "Other" THEN cats[c] # <<>>
    ELSE \E k \in DOMAIN cats[c] : cats[c][k] # <<>>

\* The printed lines with the given tag, as indices into stdout.
LinesTagged(tag) == {i \in 1..Len(stdout) : stdout[i][1] = tag}

\* The extension headers printed under the category header at line i.
HeadersUnder(i) ==
    { j \in LinesTagged("extension") :
        /\ i < j
        /\ \A k \in LinesTagged("category") : ~(i < k /\ k < j) }

C9_SortedBucketsAndDisplayOrder ==
    /\ Categorized =>
          /\ FilesAscending(categories["Other"])
          /\ \A c \in KeyedCategories :
                \A k \in DOMAIN categories[c] : FilesAscending(categories[c][k])
    /\ pc \in {"display_summary", "done"} =>
          /\ \A c \in CategoryNames :
                Cardinality({i \in LinesTagged("category") : stdout[i][2] = c})
                    = (IF HoldsFiles(categories, c) THEN 1 ELSE 0)
          /\ \A i, j \in LinesTagged("category") :
                i < j => PositionOf(stdout[i][2]) < PositionOf(stdout[j][2])
          /\ \A i \in LinesTagged("category") :
                /\ stdout[i][2] # "Other" =>
                      /\ {stdout[j][2] : j \in HeadersUnder(i)}
                            = DOMAIN categories[stdout[i][2]]
                      /\ Cardinality(HeadersUnder(i))
                            = Cardinality(DOMAIN categories[stdout[i][2]])
                /\ stdout[i][2] = "Other" => HeadersUnder(i) = {}
                /\ \A j1, j2 \in HeadersUnder(i) :
                      j1 < j2 => StrLess(casefold(stdout[j1][2]), casefold(stdout[j2][2]))

\* A finished listing with two extension headers under Document, one of them
\* over a list whose order ("a.md" before "B.MD") is that of the case-folded
\* names and not that of the names.
C9_Witness ==
    /\ pc = "done"
    /\ DOMAIN categories["Document"] = {<<".", "g", "z">>, <<".", "m", "d">>}
    /\ categories["Document"][<<".", "m", "d">>]
          = << <<<<"a", ".", "m", "d">>, 500>>, <<<<"B", ".", "M", "D">>, 300>> >>
    /\ Cardinality(LinesTagged("extension")) = 2

(***************************************************************************)
(* C6: display_summary prints one row for each category that holds a file, *)
(* none for an empty one, in the fixed order; a row's count is the number  *)
(* of files of the category and its size the (formatted) sum of their      *)
(* sizes; the counts add up to the number of regular files scanned.        *)
(***************************************************************************)
\* The entries of the directory that the result holds in category c.
MembersOf(c) == {e \in RegularFiles : c \in CategoriesHolding(e)}

RECURSIVE TotalSize(_)
TotalSize(S) ==
    IF S = {} THEN 0
    ELSE LET e == CHOOSE x \in S : TRUE IN e.size + TotalSize(S \ {e})

RECURSIVE SumCounts(_)
SumCounts(rows) ==
    IF rows = <<>> THEN 0 ELSE rows[1][3] + SumCounts(Tail(rows))

SummaryRows == SelectSeq(stdout, LAMBDA line : line[1] = "row")

NonEmptyCategories == SelectSeq(CategoryOrder, LAMBDA c : MembersOf(c) # {})

C6_SummaryRows ==
    pc = "done" =>
        /\ Len(SummaryRows) = Len(NonEmptyCategories)
        /\ \A i \in 1..Len(SummaryRows) :
              LET c == NonEmptyCategories[i]
              IN  /\ SummaryRows[i][2] = c
                  /\ SummaryRows[i][3] = Cardinality(MembersOf(c))
                  /\ SummaryRows[i][3] =
                        Cardinality({q \in UNION {PlacesIn(categories, x) :
                                                     x \in HeldIn(categories)} : q[1] = c})
                  /\ SummaryRows[i][4] = format_size(ToDigits(TotalSize(MembersOf(c))))
        /\ SumCounts(SummaryRows) = Cardinality(RegularFiles)

\* A summary of two rows, one of them counting the two files of one bucket.
C6_Witness ==
    /\ pc = "done"
    /\ Len(SummaryRows) = 2
    /\ \E i \in 1..Len(SummaryRows) : SummaryRows[i][3] = 2
    /\ \E c \in KeyedCategories : \E k \in DOMAIN categories[c] : Len(categories[c][k]) = 2

(***************************************************************************)
(* C8: a failure of os.scandir is caught nowhere: the run ends in the      *)
(* fatal state, stays there, and no later step of the pipeline happens; a  *)
(* failure in categorize_files leaves the file listing and the summary     *)
(* unprinted.  A run that does not fail does the five steps in order, each *)
(* once.                                                                   *)
(***************************************************************************)
Pipeline ==
    <<"list_directories", "display_directories", "categorize_files",
      "display_files", "display_summary">>

IsPrefix(s, t) == Len(s) <= Len(t) /\ SubSeq(t, 1, Len(s)) = s

FilesOrSummaryPrinted ==
    \/ LinesTagged("category") \cup LinesTagged("extension") # {}
    \/ LinesTagged("file") \cup LinesTagged("row") # {}
    \/ \E i \in 1..Len(stdout) : stdout[i] = <<"header", "Summary:">>

DirectoriesPrinted == \E i \in 1..Len(stdout) : stdout[i] = <<"header", "Directories:">>

C8_StateOfRun ==
    /\ IsPrefix(steps, Pipeline)
    /\ pc = "done" => steps = Pipeline
    /\ pc \notin {"done", "fatal"} => pc = Pipeline[Len(steps) + 1]
    /\ pc = "fatal" =>
          /\ steps \in {<<>>, <<"list_directories", "display_directories">>}
          /\ ~FilesOrSummaryPrinted
          /\ steps = <<>> => ~DirectoriesPrinted
    /\ FilesOrSummaryPrinted => Len(steps) >= 4
    /\ DirectoriesPrinted <=> Len(steps) >= 2

C8_FatalOrLinear ==
    /\ []C8_StateOfRun
    /\ [][pc = "fatal" => (pc' = "fatal" /\ steps' = steps /\ stdout' = stdout)]_vars
    /\ [][Len(steps') <= Len(steps) + 1 /\ IsPrefix(steps, steps')]_vars

\* A run that failed in categorize_files, after the directories were printed.
C8_Witness ==
    /\ pc = "fatal"
    /\ steps = <<"list_directories", "display_directories">>
    /\ DirectoriesPrinted

(***************************************************************************)
(* C7 as stated: a second run on the unchanged directory gives the results *)
(* of the first, name for name and size for size in the same order,        *)
(* whatever the orders in which the scans yield the entries.               *)
(***************************************************************************)
SecondRunDone == first # None /\ pc = "done"

C7_IdenticalResults == SecondRunDone => first = ScanResults

(***************************************************************************)
(* C7 amended: a second run on the unchanged directory gives the same      *)
(* lists and buckets with the same names and sizes, in the same order      *)
(* except among names that are equal under case folding: position by       *)
(* position the two runs agree in the case-folded name, and a list without *)
(* two such names is identical in both runs.                               *)
(***************************************************************************)
SameNamesUpToCase(a, b) ==
    /\ Len(a) = Len(b)
    /\ {a[i] : i \in 1..Len(a)} = {b[i] : i \in 1..Len(b)}
    /\ \A i \in 1..Len(a) : casefold(a[i]) = casefold(b[i])

SameFilesUpToCase(a, b) ==
    /\ Len(a) = Len(b)
    /\ {a[i] : i \in 1..Len(a)} = {b[i] : i \in 1..Len(b)}
    /\ \A i \in 1..Len(a) : casefold(a[i][1]) = casefold(b[i][1])

NoCaseTwins(names) ==
    \A i, j \in 1..Len(names) : i # j => casefold(names[i]) # casefold(names[j])

C7_SameUpToCaseTwins ==
    SecondRunDone =>
        /\ SameNamesUpToCase(first[1], hidden_dirs)
        /\ SameNamesUpToCase(first[2], visible_dirs)
        /\ NoCaseTwins(hidden_dirs) => first[1] = hidden_dirs
        /\ NoCaseTwins(visible_dirs) => first[2] = visible_dirs
        /\ SameFilesUpToCase(first[3]["Other"], categories["Other"])
        /\ \A c \in KeyedCategories :
              /\ DOMAIN first[3][c] = DOMAIN categories[c]
              /\ \A k \in DOMAIN categories[c] :
                    /\ SameFilesUpToCase(first[3][c][k], categories[c][k])
                    /\ NoCaseTwins([i \in 1..Len(categories[c][k]) |-> categories[c][k][i][1]])
                          => first[3][c][k] = categories[c][k]

\* Two finished runs on one directory whose results differ: the directory
\* holds w and W, and the two scans yielded them in different orders.
C7_Witness ==
    /\ SecondRunDone
    /\ InFs(<<"w">>)
    /\ InFs(<<"W">>)
    /\ first[3]["Other"] # categories["Other"]

(***************************************************************************)
(* C5: format_size(b) has the unit B for b < 1024, K below 1024^2, M below *)
(* 1024^3, G below 1024^4 and T from 1024^4 on (also from 1024^5 on, where *)
(* the value is 1024 or more); its number is b / 1024^k for the unit's k,  *)
(* to one fractional digit: the nearest tenth, a tie going to the even     *)
(* digit.  Arithmetic is on base-1024 digit sequences.                     *)
(***************************************************************************)
RECURSIVE BigAddCarry(_, _, _)
BigAddCarry(a, b, c) ==
    IF a = <<>> /\ b = <<>> THEN (IF c = 0 THEN <<>> ELSE <<c>>)
    ELSE LET x == (IF a = <<>> THEN 0 ELSE a[1]) + (IF b = <<>> THEN 0 ELSE b[1]) + c
         IN  <<x % Base>> \o BigAddCarry(IF a = <<>> THEN a ELSE Tail(a),
                                         IF b = <<>> THEN b ELSE Tail(b),
                                         x \div Base)

BigAdd(a, b) == Normalize(BigAddCarry(a, b, 0))

RECURSIVE BigTimesCarry(_, _, _)
BigTimesCarry(a, m, c) ==
    IF a = <<>> THEN (IF c = 0 THEN <<>> ELSE <<c>>)
    ELSE LET x == a[1] * m + c
         IN  <<x % Base>> \o BigTimesCarry(Tail(a), m, x \div Base)

\* a * m for a factor m below Base.
BigTimes(a, m) == Normalize(BigTimesCarry(a, m, 0))

\* a * 1024^k.
BigShift(a, k) == Normalize([i \in 1..k |-> 0] \o a)

\* a <= b, for digit sequences without high zeros.
BigLeq(a, b) ==
    \/ Len(a) < Len(b)
    \/ /\ Len(a) = Len(b)
       /\ \/ a = b
          \/ \E i \in 1..Len(a) :
                a[i] < b[i] /\ \A j \in (i + 1)..Len(a) : a[j] = b[j]

\* The number of base-1024 digits of b: b < 1024^n, and b >= 1024^(n-1) if n > 1.
DigitsOf(b) == Len(Normalize(b))

UnitFor(b) ==
    LET n == DigitsOf(b)
    IN  IF n = 1 THEN "B" ELSE IF n = 2 THEN "K" ELSE IF n = 3 THEN "M"
        ELSE IF n = 4 THEN "G" ELSE "T"

ExponentFor(b) == IF DigitsOf(b) >= 5 THEN 4 ELSE DigitsOf(b) - 1

C5_UnitAndNumber ==
    pc = "returned" =>
        LET b     == size_in_bytes
            k     == ExponentFor(b)
            \* the printed number in tenths, R; then |10 b - R 1024^k| <= 1024^k / 2
            R     == BigAdd(BigTimes(formatted.whole, 10), <<formatted.tenth>>)
            X     == BigTimes(b, 20)
            Y     == BigShift(BigTimes(R, 2), k)
            N     == BigShift(<<1>>, k)
        IN  /\ formatted.unit = UnitFor(b)
            /\ formatted.tenth \in 0..9
            /\ formatted.whole = Normalize(formatted.whole)
            /\ BigLeq(Y, BigAdd(X, N))
            /\ BigLeq(X, BigAdd(Y, N))
            /\ (Y = BigAdd(X, N) \/ X = BigAdd(Y, N)) => formatted.tenth % 2 = 0

\* format_size of a count of 1024^5 or more: the unit is T and the number has
\* more than one base-1024 digit, that is, it is not below 1024.
C5_Witness ==
    /\ pc = "returned"
    /\ DigitsOf(size_in_bytes) = 6
    /\ formatted.unit = "T"
    /\ Len(formatted.whole) = 2

====
